---- MODULE Spec2Model ----
(***************************************************************************)
(* tds-svc-agent, WebSocket edition (src/unnamed/part_000): the session    *)
(* lifecycle (connectWS, heartbeat, backoff reconnect, shutdown), the      *)
(* message dispatcher (handleMessage, wsSend) and the reporting timer.     *)
(*                                                                         *)
(* Time is the value Date.now() returns, in milliseconds.  It advances by  *)
(* one heartbeat tick period per AdvanceTime step; a heartbeat interval    *)
(* timer fires exactly when it is due.  The reconnect timeout and the      *)
(* report interval fire at any moment, except that a timeout armed after   *)
(* the shutdown handler ran fires before process.exit only if its delay is *)
(* shorter than the exit grace delay.                                      *)
(*                                                                         *)
(* Spec     the connection manager under several configurations, with the  *)
(*          clock running: sessions open, break, time out and reconnect;   *)
(*          the peer sends no request and no enumeration starts.           *)
(* LiveSpec Spec with the fairness the event loop gives timers and         *)
(*          socket 'close' events.                                         *)
(* MsgSpec  the dispatcher, the reporting timer and the install handler    *)
(*          with sessions that open and close, within one heartbeat period *)
(*          (the clock stands still), under the default configuration;     *)
(*          every connection attempt succeeds, requests carry no args.     *)
(* ShellSpec runInstall requests with args drawn from short strings: the   *)
(*          command line built and what the shell runs for it.             *)
(* SnapSpec the reporting timer without a session, with the clock running. *)
(* EnumSpec the enumerators on every output of a family of hosts.          *)
(***************************************************************************)
EXTENDS Integers, Sequences, FiniteSets, TLC

VARIABLES
    cfg,                \* config.ws.* / config.reporting.sendOnConnect
    now,                \* Date.now()
    running,            \* the process has not exited
    shuttingDown,       \* shutdown(sig) has run, process.exit is pending
    socks,              \* readyState of every WebSocket object
    ws,                 \* let ws: the current WebSocket object, 0 = null
    wsTimerHeartbeat,   \* let wsTimerHeartbeat: interval handle, 0 = null
    hbTimers,           \* the heartbeat intervals the event loop holds
    wsTimerReconnect,   \* let wsTimerReconnect: timeout handle, 0 = null
    rcTimers,           \* the reconnect timeouts the event loop holds
    lastPongAt,         \* let lastPongAt
    reconnectAttempts,  \* let reconnectAttempts
    timerReport,        \* let timerReport: the report interval is armed
    lastSnapshot,       \* let lastSnapshot
    inflight,           \* async handlers suspended at an await
    wire,               \* frames handed to ws.send, in order
    evSeq,              \* number of events processed so far
    discarded,          \* messages wsSend was given while not open
    lastSched,          \* the reconnect scheduled most recently
    env,                \* process.platform, config.include / exclude /
                        \* docker.enabled, what the commands can print
    events,             \* the events handled so far, by event number
    completed,          \* the takeSnapshot runs, in order of completion
    restartTimers,      \* the restartSelf timeouts the event loop holds
    peer,               \* the args lists the peer puts in runInstall requests
    launched,           \* what each shell spawned for an install has run
    ident               \* config.systemId, the id files, the machine id and
                        \* interfaces, and the initSystemId calls so far

vars == << cfg, now, running, shuttingDown, socks, ws, wsTimerHeartbeat,
           hbTimers, wsTimerReconnect, rcTimers, lastPongAt,
           reconnectAttempts, timerReport, lastSnapshot, inflight, wire,
           evSeq, discarded, lastSched, env, events, completed,
           restartTimers, peer, launched, ident >>

-----------------------------------------------------------------------------
(* Bounds *)

MaxSockets == 2
MaxAttempts == 3
MaxEvents == 2
MaxAdvance == 4
StartTime == 1000
MaxArgLen == 4
MaxLines == 2
MaxCalls == 2

RequestIds == {"r1"}
MessageTypes ==
    {"ping", "getSnapshot", "refresh", "runInstall", "other", "malformed"}
ExitCodes == {0, 1}

-----------------------------------------------------------------------------
(* Program constants *)

DefaultHeartbeatSec == 25
MinHeartbeatSec == 5
DefaultReconnectBaseMs == 1000
MinReconnectBaseMs == 100
DefaultReconnectMaxMs == 30000
JitterRangeMs == 200
ExitGraceMs == 300
RestartDelayMs == 500

\* Math.floor(Math.random() * 200): the two extremes
JitterChoices == {0, JitterRangeMs - 1}

-----------------------------------------------------------------------------
(* Helpers *)

MinOf(a, b) == IF a < b THEN a ELSE b
MaxOf(a, b) == IF a > b THEN a ELSE b

RECURSIVE Pow2(_)
Pow2(n) == IF n = 0 THEN 1 ELSE 2 * Pow2(n - 1)

\* a || b on numbers: 0 is falsy
OrDefault(a, b) == IF a = 0 THEN b ELSE a

SockIds == 1 .. MaxSockets

\* a handle no pending timer of the set uses
FreshId(timers) ==
    CHOOSE i \in 1 .. (Cardinality(timers) + 1) : \A t \in timers : t.id # i

NoSched == [attempts |-> 0, delay |-> 0, backoff |-> 0]

-----------------------------------------------------------------------------
(* wsSend *)

SessionOpen(sockets, cur) == cur # 0 /\ sockets[cur] = "OPEN"

\* wsSend without the readyState test
wsSendAlways(sockets, cur, w, msg) == Append(w, msg)

wsSend(sockets, cur, w, msg) ==
    IF SessionOpen(sockets, cur) THEN Append(w, msg) ELSE w

\* the messages of ms that a wsSend call finds the session not open for
Dropped(sockets, cur, ms) ==
    IF SessionOpen(sockets, cur) THEN {} ELSE ms

-----------------------------------------------------------------------------
(* scheduleReconnect *)

ReconnectBase == MaxOf(MinReconnectBaseMs,
                       OrDefault(cfg.reconnectBaseMs, DefaultReconnectBaseMs))
ReconnectMax == MaxOf(ReconnectBase,
                      OrDefault(cfg.reconnectMaxMs, DefaultReconnectMaxMs))

\* the exponent one too small
BackoffOffByOne(attempts) ==
    MinOf(ReconnectMax,
          ReconnectBase * Pow2(IF attempts > 0 THEN attempts - 1 ELSE 0))

\* Math.min(max, ...) left out
BackoffNoCap(attempts) == ReconnectBase * Pow2(attempts)

Backoff(attempts) == MinOf(ReconnectMax, ReconnectBase * Pow2(attempts))

\* the handle and the pending timeouts after scheduleReconnect()
scheduleReconnect(handle, timers, attempts, jitter, closing) ==
    IF handle # 0
    THEN [handle |-> handle, timers |-> timers]
    ELSE LET delay == Backoff(attempts) + jitter
             id == FreshId(timers)
         IN  [handle |-> id,
              timers |-> timers \cup
                  {[id |-> id, delay |-> delay, attempts |-> attempts,
                    beforeExit |-> (~closing \/ delay < ExitGraceMs)]}]

-----------------------------------------------------------------------------
(* startHeartbeat / stopHeartbeat *)

HeartbeatInterval ==
    MaxOf(MinHeartbeatSec, OrDefault(cfg.heartbeatSec, DefaultHeartbeatSec)) * 1000
HeartbeatPeriod == OrDefault(cfg.heartbeatSec, DefaultHeartbeatSec) * 1000

\* a stopHeartbeat that clears nothing
stopHeartbeatNoop(handle, timers) ==
    [handle |-> handle, timers |-> timers]

stopHeartbeat(handle, timers) ==
    IF handle # 0
    THEN [handle |-> 0, timers |-> {t \in timers : t.id # handle}]
    ELSE [handle |-> handle, timers |-> timers]

startHeartbeat(handle, timers, t0) ==
    LET stopped == stopHeartbeat(handle, timers)
        id == FreshId(stopped.timers)
    IN  [handle |-> id,
         timers |-> stopped.timers \cup {[id |-> id, due |-> t0 + HeartbeatPeriod]}]

-----------------------------------------------------------------------------
(* Service names and the enumerators *)

\* a name is the string pre + stem + suf
Name(pre, stem, suf) == [pre |-> pre, stem |-> stem, suf |-> suf]

\* the strings of each part, in ascending order
Prefixes == << "", "docker:" >>
Stems == << "api", "web", "Web" >>
Suffixes == << "", ".service", ".socket" >>

\* the characters of each part
Spelling(part) ==
    CASE part = "" -> << >>
      [] part = "docker:" -> << "d", "o", "c", "k", "e", "r", ":" >>
      [] part = "api" -> << "a", "p", "i" >>
      [] part = "web" -> << "w", "e", "b" >>
      [] part = "Web" -> << "W", "e", "b" >>
      [] part = ".service" -> << ".", "s", "e", "r", "v", "i", "c", "e" >>
      [] part = ".socket" -> << ".", "s", "o", "c", "k", "e", "t" >>

NameChars(n) == Spelling(n.pre) \o Spelling(n.stem) \o Spelling(n.suf)

\* String.prototype.toLowerCase on the characters above
ToLower(c) == IF c = "W" THEN "w" ELSE c

\* [a-z0-9._-] among the characters above
SlugChars == {"a", "b", "c", "d", "e", "i", "k", "o", "p", "r", "s", "t",
              "v", "w", ".", "-"}

\* .replace(/[^a-z0-9._-]+/g, "-"): a run of other characters becomes one
\* dash; inRun tells that the character before was replaced
RECURSIVE ReplaceRuns(_, _)
ReplaceRuns(str, inRun) ==
    IF str = << >> THEN << >>
    ELSE IF Head(str) \in SlugChars
         THEN << Head(str) >> \o ReplaceRuns(Tail(str), FALSE)
         ELSE IF inRun THEN ReplaceRuns(Tail(str), TRUE)
              ELSE << "-" >> \o ReplaceRuns(Tail(str), TRUE)

\* .replace(/^-+|-+$/g, "")
RECURSIVE TrimDashes(_)
TrimDashes(str) ==
    IF str = << >> THEN str
    ELSE IF Head(str) = "-" THEN TrimDashes(Tail(str))
    ELSE IF str[Len(str)] = "-"
         THEN TrimDashes(SubSeq(str, 1, Len(str) - 1))
    ELSE str

slug(str) ==
    TrimDashes(ReplaceRuns([i \in DOMAIN str |-> ToLower(str[i])], FALSE))

\* `${slug(HOSTNAME)}:${slug(serviceName)}`; the host part is the same in
\* every record of a process
mkId(serviceName) == << "host", ":" >> \o slug(NameChars(serviceName))

RankIn(seq, x) == CHOOSE i \in DOMAIN seq : seq[i] = x

\* a.localeCompare(b) < 0 on the names above
NameBefore(a, b) ==
    LET ra == << RankIn(Prefixes, a.pre), RankIn(Stems, a.stem),
                 RankIn(Suffixes, a.suf) >>
        rb == << RankIn(Prefixes, b.pre), RankIn(Stems, b.stem),
                 RankIn(Suffixes, b.suf) >>
    IN  \/ ra[1] < rb[1]
        \/ ra[1] = rb[1] /\ ra[2] < rb[2]
        \/ ra[1] = rb[1] /\ ra[2] = rb[2] /\ ra[3] < rb[3]

\* services.sort((a, b) => a.service.localeCompare(b.service)): stable
RECURSIVE InsertSorted(_, _)
InsertSorted(sorted, r) ==
    IF sorted = << >> THEN << r >>
    ELSE IF NameBefore(r.service, Head(sorted).service)
         THEN << r >> \o sorted
         ELSE << Head(sorted) >> \o InsertSorted(Tail(sorted), r)

RECURSIVE SortByService(_)
SortByService(recs) ==
    IF recs = << >> THEN << >>
    ELSE InsertSorted(SortByService(SubSeq(recs, 1, Len(recs) - 1)),
                      recs[Len(recs)])

\* a section of systemctl show without an Id line, a blank launchctl line
NoId == Name("", "", "")

\* the include and exclude tests of both service manager enumerators
Passes(name, include, exclude) ==
    /\ include # {} => name \in include
    /\ name \notin exclude

RECURSIVE SelectRecs(_, _, _, _, _)
SelectRecs(ids, onlyService, include, exclude, platform) ==
    IF ids = << >> THEN << >>
    ELSE LET id == Head(ids)
             rest == SelectRecs(Tail(ids), onlyService, include, exclude,
                                platform)
         IN  IF /\ id # NoId
                /\ onlyService => id.suf = ".service"
                /\ Passes(id, include, exclude)
             THEN << [id |-> mkId(id), service |-> id,
                      platform |-> platform] >> \o rest
             ELSE rest

\* a section of systemctl show as the loop parses it into obj: the values
\* of Id, ActiveState and SubState, "" (NoId for Id) for a key not printed
Section(id, active, sub) ==
    [Id |-> id, ActiveState |-> active, SubState |-> sub]

\* obj.X || "unknown"
OrUnknown(v) == IF v = "" THEN "unknown" ELSE v

\* healthy as the first operand of the || alone computes it
healthyWhenRunning(obj) ==
    obj.ActiveState = "active" /\ obj.SubState = "running"

\* (ActiveState === "active" && SubState === "running") ||
\* ActiveState === "active"
healthy(obj) ==
    \/ obj.ActiveState = "active" /\ obj.SubState = "running"
    \/ obj.ActiveState = "active"

RECURSIVE SelectSections(_, _, _)
SelectSections(sections, include, exclude) ==
    IF sections = << >> THEN << >>
    ELSE LET obj == Head(sections)
             rest == SelectSections(Tail(sections), include, exclude)
         IN  IF /\ obj.Id # NoId
                /\ obj.Id.suf = ".service"
                /\ Passes(obj.Id, include, exclude)
             THEN << [id |-> mkId(obj.Id), service |-> obj.Id,
                      platform |-> "linux",
                      active |-> OrUnknown(obj.ActiveState),
                      sub |-> OrUnknown(obj.SubState),
                      healthy |-> healthy(obj)] >> \o rest
             ELSE rest

\* stdout is the list of the sections printed
listSystemdServices(stdout, include, exclude) ==
    SortByService(SelectSections(stdout, include, exclude))

\* stdout is the list of the labels of the lines printed
listLaunchdServices(stdout, include, exclude) ==
    SortByService(SelectRecs(stdout, FALSE, include, exclude, "darwin"))

\* stdout is the list of the container names of the lines printed
listDockerContainers(enabled, stdout) ==
    IF ~enabled THEN << >>
    ELSE [i \in DOMAIN stdout |->
            [id |-> mkId(Name("docker:", stdout[i].stem, stdout[i].suf)),
             service |-> Name("docker:", stdout[i].stem, stdout[i].suf),
             platform |-> "docker"]]

\* the lists takeSnapshot awaits, in the order it pushes them
ServiceManagerPart(h, stdout) ==
    IF h.platform = "linux"
    THEN listSystemdServices(stdout, h.include, h.exclude)
    ELSE IF h.platform = "darwin"
         THEN listLaunchdServices(stdout, h.include, h.exclude)
         ELSE << >>

ContainerPart(h, stdout) ==
    IF h.docker THEN listDockerContainers(h.docker, stdout) ELSE << >>

-----------------------------------------------------------------------------
(* runLocalInstallSh: the command line and what the shell makes of it *)

\* path.join(__dirname, "scripts", "install.sh"), taken as one character of
\* the command line: the path holds no character the shell treats specially
InstallSh == "install.sh"

\* the characters of the strings the peer sends as args
ArgChars == {"a", "\"", ";"}

\* `"${a}"`
Quoted(a) == << "\"" >> \o a \o << "\"" >>

\* extraArgs.map(a => `"${a}"`).join(" ")
RECURSIVE JoinQuoted(_)
JoinQuoted(args) ==
    IF args = << >> THEN << >>
    ELSE IF Len(args) = 1 THEN Quoted(args[1])
    ELSE Quoted(Head(args)) \o << " " >> \o JoinQuoted(Tail(args))

\* String.prototype.trim
RECURSIVE Trim(_)
Trim(str) ==
    IF str = << >> THEN str
    ELSE IF Head(str) = " " THEN Trim(Tail(str))
    ELSE IF str[Len(str)] = " " THEN Trim(SubSeq(str, 1, Len(str) - 1))
    ELSE str

\* const cmd
CommandLine(args) ==
    Trim(Quoted(<< InstallSh >>) \o << " " >> \o JoinQuoted(args))

SyntaxError == [ok |-> FALSE, cmds |-> << >>]

EndWord(words, word, inWord) == IF inWord THEN Append(words, word) ELSE words

\* /bin/sh -c cmd: the commands of the line, each a list of words; a double
\* quote opens or closes a quoted stretch, where blank and semicolon are
\* ordinary characters; outside one a blank ends a word and a semicolon
\* ends a command; an empty command or an open quote at the end is a syntax
\* error and the shell runs nothing
RECURSIVE ShellParse(_, _, _, _, _, _)
ShellParse(rest, quoted, word, inWord, words, cmds) ==
    IF rest = << >>
    THEN IF quoted THEN SyntaxError
         ELSE LET last == EndWord(words, word, inWord)
              IN  [ok |-> TRUE,
                   cmds |-> IF last = << >> THEN cmds ELSE Append(cmds, last)]
    ELSE LET c == Head(rest)
             more == Tail(rest)
         IN  IF quoted
             THEN IF c = "\""
                  THEN ShellParse(more, FALSE, word, inWord, words, cmds)
                  ELSE ShellParse(more, TRUE, Append(word, c), TRUE, words,
                                  cmds)
             ELSE CASE c = "\"" ->
                         ShellParse(more, TRUE, word, TRUE, words, cmds)
                    [] c = " " ->
                         ShellParse(more, FALSE, << >>, FALSE,
                                    EndWord(words, word, inWord), cmds)
                    [] c = ";" ->
                         LET done == EndWord(words, word, inWord)
                         IN  IF done = << >> THEN SyntaxError
                             ELSE ShellParse(more, FALSE, << >>, FALSE,
                                             << >>, Append(cmds, done))
                    [] OTHER ->
                         ShellParse(more, FALSE, Append(word, c), TRUE,
                                    words, cmds)

\* the program of each command the shell runs: the command's first word
Programs(cmd) ==
    LET parsed == ShellParse(cmd, FALSE, << >>, FALSE, << >>, << >>)
    IN  [i \in DOMAIN parsed.cmds |-> parsed.cmds[i][1]]

\* spawn(cmd, { shell: true, ... }) for the request handled as event ev
runLocalInstallSh(ev, args) ==
    [ev |-> ev, args |-> args, programs |-> Programs(CommandLine(args))]

\* the strings of at most n characters
ArgStrings(n) == UNION {[1 .. k -> ArgChars] : k \in 0 .. n}

\* a peer that sends no args, and one that sends any list of one string or
\* of two short ones
NoArgs == { << >> }
AnyArgs ==
    NoArgs \cup {<< a >> : a \in ArgStrings(MaxArgLen)}
           \cup {<< a, b >> : a, b \in ArgStrings(1)}

-----------------------------------------------------------------------------
(* initSystemId: strings are lists of tokens, null is the empty list *)

Whitespace == {" ", "\n"}

\* String.prototype.trim
RECURSIVE TrimWs(_)
TrimWs(str) ==
    IF str = << >> THEN str
    ELSE IF Head(str) \in Whitespace THEN TrimWs(Tail(str))
    ELSE IF str[Len(str)] \in Whitespace
         THEN TrimWs(SubSeq(str, 1, Len(str) - 1))
    ELSE str

\* a candidate path: for a file that does not exist, writable tells whether
\* it can be created
File(exists, readable, writable, content) ==
    [exists |-> exists, readable |-> readable, writable |-> writable,
     content |-> content]

\* ID_FILE_CANDIDATES with SVC_AGENT_ID_PATH unset
NumCandidates == 3

\* for (const p of paths): the first existing file that can be read decides
RECURSIVE readFrom(_, _)
readFrom(files, p) ==
    IF p > Len(files) THEN << >>
    ELSE IF files[p].exists /\ files[p].readable
         THEN TrimWs(files[p].content)
         ELSE readFrom(files, p + 1)

readFirstExisting(files) == readFrom(files, 1)

\* for (const p of paths): the first path writeFileSync succeeds on; a file
\* created gets mode 0600
RECURSIVE writeFrom(_, _, _)
writeFrom(files, p, value) ==
    IF p > Len(files) THEN [files |-> files, path |-> 0]
    ELSE IF files[p].writable
         THEN [files |->
                  [files EXCEPT ![p] =
                      File(TRUE, IF files[p].exists THEN files[p].readable
                                 ELSE TRUE,
                           TRUE, value \o << "\n" >>)],
               path |-> p]
         ELSE writeFrom(files, p + 1, value)

writeFirstWritable(files, value) == writeFrom(files, 1, value)

\* sha256 of HOSTNAME|macs, as a token
HashId(macs) == << "sha256-" \o macs >>

\* crypto.randomUUID(): a new value at every call
RandomId(call) ==
    << CASE call = 1 -> "uuid-1" [] call = 2 -> "uuid-2"
         [] call = 3 -> "uuid-3" [] OTHER -> "uuid-4" >>

\* steps 3 to 5: machineId is what getLinuxMachineId / getMacPlatformUUID
\* returned; hashOk is false when os.networkInterfaces() throws
osIdOf(e, call) ==
    IF e.machineId # << >> THEN [value |-> e.machineId, step |-> 3]
    ELSE IF e.hashOk THEN [value |-> HashId(e.macs), step |-> 4]
    ELSE [value |-> RandomId(call), step |-> 5]

\* the value returned, the step that produced it, the files afterwards and
\* the candidate written (0: none)
initSystemId(e, call) ==
    IF e.override # << >>
    THEN [value |-> TrimWs(e.override), step |-> 1, files |-> e.files,
          wrote |-> 0]
    ELSE LET persisted == readFirstExisting(e.files)
         IN  IF persisted # << >>
             THEN [value |-> persisted, step |-> 2, files |-> e.files,
                   wrote |-> 0]
             ELSE LET os == osIdOf(e, call)
                      w == writeFirstWritable(e.files, os.value)
                  IN  [value |-> os.value, step |-> os.step,
                       files |-> w.files, wrote |-> w.path]

\* the states a candidate path can be in
FileStates ==
    { File(FALSE, FALSE, w, << >>) : w \in BOOLEAN }
      \cup { File(TRUE, FALSE, w, << >>) : w \in BOOLEAN }
      \cup { File(TRUE, TRUE, w, c) :
               w \in BOOLEAN, c \in { << >>, << "old-id", "\n" >> } }

\* config.systemId: unset, blank, set
Overrides == { << >>, << " " >>, << " ", "cfg-id" >> }

Ident(override, files, machineId, hashOk) ==
    [override |-> override, files |-> files, machineId |-> machineId,
     macs |-> "nic-1", hashOk |-> hashOk, changes |-> 0, ids |-> << >>]

Idents ==
    { Ident(o, f, m, h) :
        o \in Overrides, f \in [1 .. NumCandidates -> FileStates],
        m \in { << >>, << "machine-1" >> }, h \in BOOLEAN }

\* a process starts on this machine: SYSTEM_ID = await initSystemId()
ResolveId ==
    /\ Len(ident.ids) < MaxCalls
    /\ LET r == initSystemId(ident, Len(ident.ids) + 1)
       IN  ident' = [ident EXCEPT
                       !.files = r.files,
                       !.ids = Append(@, [value |-> r.value,
                                          step |-> r.step,
                                          wrote |-> r.wrote,
                                          changes |-> ident.changes,
                                          before |-> ident.files,
                                          after |-> r.files])]
    /\ UNCHANGED << cfg, now, running, shuttingDown, socks, ws,
                    wsTimerHeartbeat, hbTimers, wsTimerReconnect, rcTimers,
                    lastPongAt, reconnectAttempts, timerReport, lastSnapshot,
                    inflight, wire, evSeq, discarded, lastSched, env, events,
                    completed, restartTimers, peer, launched >>

\* between two starts the machine id is regenerated and the network
\* interface replaced
HardwareChange ==
    /\ ident.changes = 0
    /\ ident' = [ident EXCEPT
                   !.machineId = IF @ = << >> THEN @ ELSE << "machine-2" >>,
                   !.macs = "nic-2",
                   !.changes = 1]
    /\ UNCHANGED << cfg, now, running, shuttingDown, socks, ws,
                    wsTimerHeartbeat, hbTimers, wsTimerReconnect, rcTimers,
                    lastPongAt, reconnectAttempts, timerReport, lastSnapshot,
                    inflight, wire, evSeq, discarded, lastSched, env, events,
                    completed, restartTimers, peer, launched >>

\* an agent that resolved its id from the machine id, with no id file
BootIdent ==
    [Ident(<< >>, [p \in 1 .. NumCandidates |-> File(FALSE, FALSE, FALSE, << >>)],
           << "machine-1" >>, TRUE)
       EXCEPT !.ids = << [value |-> << "machine-1" >>, step |-> 3,
                          wrote |-> 0, changes |-> 0,
                          before |-> [p \in 1 .. NumCandidates |->
                                        File(FALSE, FALSE, FALSE, << >>)],
                          after |-> [p \in 1 .. NumCandidates |->
                                       File(FALSE, FALSE, FALSE, << >>)]] >>]

-----------------------------------------------------------------------------
(* Init: the state when boot() has run to its end *)

Config(u, h, b, m, s) ==
    [url |-> u, heartbeatSec |-> h, reconnectBaseMs |-> b,
     reconnectMaxMs |-> m, sendOnConnect |-> s]

\* url set?, ws.heartbeatSec, ws.reconnectBaseMs, ws.reconnectMaxMs,
\* reporting.sendOnConnect; 0 stands for a value left unset
Configs ==
    { Config(TRUE, 3, 50, 150, FALSE),
      Config(TRUE, 5, 1000, 3000, FALSE),
      Config(TRUE, 3, 0, 0, FALSE),
      Config(FALSE, 5, 0, 0, TRUE) }

DefaultConfig == Config(TRUE, 0, 0, 0, TRUE)

\* process.platform, config.include, config.exclude, config.docker.enabled,
\* the outputs systemctl / launchctl can print, those docker ps can print
Host(platform, include, exclude, docker, unitOuts, psOuts) ==
    [platform |-> platform, include |-> include, exclude |-> exclude,
     docker |-> docker, unitOuts |-> unitOuts, psOuts |-> psOuts]

Unit(stem) == Name("", stem, ".service")

\* the section of a unit that is active and running, and a list of them
Running(id) == Section(id, "active", "running")
AllRunning(ids) == [i \in DOMAIN ids |-> Running(ids[i])]
Container(stem) == Name("", stem, "")

PlainHost ==
    Host("linux", {}, {}, FALSE, { AllRunning(<< Unit("api") >>) }, { << >> })

\* a host whose service manager prints one of two lists
BusyHost ==
    Host("linux", {}, {}, TRUE,
         { AllRunning(<< Unit("web"), Unit("api") >>),
           AllRunning(<< Unit("api") >>) },
         { << Container("web"), Container("api") >> })

\* the value takeSnapshot builds from what the two commands printed
Combined(run, h, unitOut, psOut, t) ==
    [run |-> run,
     services |-> ServiceManagerPart(h, unitOut) \o ContainerPart(h, psOut),
     takenAt |-> t]

\* what is recorded of a takeSnapshot run when it completes: the event that
\* started it, whether the session was open, the list each enumerator
\* returned, the time
Completion(ev, open, h, unitOut, psOut, t) ==
    [ev |-> ev, open |-> open,
     parts |-> << ServiceManagerPart(h, unitOut), ContainerPart(h, psOut) >>,
     takenAt |-> t]

\* the strings of at most n elements of a set
SeqsUpTo(S, n) == UNION {[1 .. k -> S] : k \in 0 .. n}

\* the Id values and labels a service manager prints, the names docker ps
\* prints
PrintedIds == {Unit("api"), Unit("web"), Name("", "web", ".socket"), NoId}
PrintedContainers == {Container("api"), Container("web"), Container("Web")}

\* config.include and config.exclude
Filters ==
    { << {}, {} >>,
      << {Unit("api")}, {} >>,
      << {}, {Unit("api")} >>,
      << {Unit("api")}, {Unit("api")} >>,
      << {}, {Unit("web")} >>,
      << {}, {Name("docker:", "web", "")} >> }

\* what the service manager of a platform prints: every output of at most
\* MaxLines lines, nothing where there is none
UnitOutputs(pf) ==
    IF pf = "other" THEN { << >> }
    ELSE IF pf = "linux"
         THEN { AllRunning(ids) : ids \in SeqsUpTo(PrintedIds, MaxLines) }
         ELSE SeqsUpTo(PrintedIds, MaxLines)

\* what docker ps prints where docker is enabled
PsOutputs(d) ==
    IF d THEN SeqsUpTo(PrintedContainers, MaxLines) ELSE { << >> }

\* the sections systemctl show prints for units in various states, with
\* the ActiveState or SubState line missing in some
PrintedSections ==
    { Section(id, a, sub) :
        id \in {Unit("api"), Unit("web")},
        a \in {"", "active", "inactive"},
        sub \in {"", "running", "exited", "dead"} }

\* process.platform
Platforms == {"linux", "darwin", "other"}

\* let lastSnapshot = { services: [], takenAt: null }
NoSnapshot == [run |-> 0, services |-> << >>, takenAt |-> 0]

InitBoot(c, h, p, i) ==
    /\ cfg = c
    /\ now = StartTime
    /\ running = TRUE
    /\ shuttingDown = FALSE
    /\ socks = [s \in SockIds |->
                  IF c.url /\ s = 1 THEN "CONNECTING" ELSE "NONE"]
    /\ ws = IF c.url THEN 1 ELSE 0
    /\ wsTimerHeartbeat = 0
    /\ hbTimers = {}
    /\ wsTimerReconnect = 0
    /\ rcTimers = {}
    /\ lastPongAt = 0
    /\ reconnectAttempts = 0
    /\ timerReport = TRUE
    /\ inflight = {}
    /\ wire = << >>
    /\ evSeq = 0
    /\ discarded = {}
    /\ lastSched = NoSched
    /\ env = h
    /\ events = << >>
    /\ restartTimers = {}
    /\ peer = p
    /\ launched = {}
    /\ ident = i
    \* await takeSnapshot(); // prime
    /\ \E unitOut \in h.unitOuts, psOut \in h.psOuts :
         /\ lastSnapshot = Combined(0, h, unitOut, psOut, StartTime)
         /\ completed = << Completion(0, FALSE, h, unitOut, psOut,
                                      StartTime) >>

InitState(c, h, p) == InitBoot(c, h, p, BootIdent)

InitWith(c) == InitState(c, PlainHost, NoArgs)

Init == \E c \in Configs : InitWith(c)

-----------------------------------------------------------------------------
(* connectWS: the part that runs synchronously, ws = new WebSocket(...) *)

FreeSocks(sockets) == {s \in SockIds : sockets[s] \in {"NONE", "CLOSED"}}

connectWS(sockets, cur) ==
    IF ~cfg.url
    THEN [socks |-> sockets, ws |-> cur]
    ELSE LET free == FreeSocks(sockets)
             n == IF free \ {cur} # {}
                  THEN CHOOSE s \in free \ {cur} : TRUE
                  ELSE CHOOSE s \in free : TRUE
         IN  [socks |-> [sockets EXCEPT ![n] = "CONNECTING"], ws |-> n]

-----------------------------------------------------------------------------
(* Messages and suspended handlers *)

Msg(type, ev, id) == [type |-> type, ev |-> ev, id |-> id]
Op(kind, ev, id) == [kind |-> kind, ev |-> ev, id |-> id]

\* the snapshot and ok messages; run names the takeSnapshot call whose
\* return value the message was built from
SnapshotMsg(ev, id, snap) ==
    [type |-> "snapshot", ev |-> ev, id |-> id, run |-> snap.run,
     takenAt |-> snap.takenAt, services |-> snap.services]
\* the ok message counting the services of the cache as it was before
OkMsgStale(ev, id, snap) ==
    [type |-> "ok", ev |-> ev, id |-> id, run |-> snap.run,
     takenAt |-> snap.takenAt, count |-> Len(lastSnapshot.services)]

OkMsg(ev, id, snap) ==
    [type |-> "ok", ev |-> ev, id |-> id, run |-> snap.run,
     takenAt |-> snap.takenAt, count |-> Len(snap.services)]
InstallResultMsg(ev, id, ok) ==
    [type |-> "installResult", ev |-> ev, id |-> id, ok |-> ok]

\* a handler suspended at await runLocalInstallSh(args, env)
InstallOp(ev, id, restart) ==
    [kind |-> "runInstall", ev |-> ev, id |-> id, restart |-> restart]

\* what is recorded of an event: its kind, the id of the request, the
\* request's restart flag, how far its install script got and with what
\* code, and whether the session was open when its handler ended
Event(kind, id, restart, script, code, open) ==
    [kind |-> kind, id |-> id, restart |-> restart, script |-> script,
     code |-> code, open |-> open]

\* wsSend applied to a list of messages, one call after the other
RECURSIVE wsSendAll(_, _, _, _)
wsSendAll(sockets, cur, w, ms) ==
    IF ms = << >> THEN w
    ELSE wsSendAll(sockets, cur, wsSend(sockets, cur, w, Head(ms)), Tail(ms))

Range(f) == {f[i] : i \in DOMAIN f}

\* the effect of a handler's wsSend calls on the frames sent
Send(ms) ==
    /\ wire' = wsSendAll(socks', ws', wire, ms)
    /\ discarded' = discarded \cup Dropped(socks', ws', Range(ms))

-----------------------------------------------------------------------------
(* ws.on("open") *)

\* the connect-time report without the sendOnConnect test
SockOpenAlwaysReport(s) ==
    /\ running
    /\ socks[s] = "CONNECTING"
    /\ evSeq < MaxEvents
    /\ LET ev == evSeq + 1
           hb == startHeartbeat(wsTimerHeartbeat, hbTimers, now)
       IN  /\ evSeq' = ev
           /\ socks' = [socks EXCEPT ![s] = "OPEN"]
           /\ ws' = ws
           /\ reconnectAttempts' = 0
           /\ lastPongAt' = now
           /\ wsTimerHeartbeat' = hb.handle
           /\ hbTimers' = hb.timers
           /\ Send(<< Msg("hello", ev, "none") >>)
           /\ inflight' = inflight \cup {Op("connect", ev, "none")}
    /\ lastSched' = NoSched
    /\ events' = Append(events,
                        Event("open", "none", FALSE, "none", 0, TRUE))
    /\ UNCHANGED << cfg, now, running, shuttingDown, wsTimerReconnect,
                    rcTimers, timerReport, lastSnapshot >>
    /\ UNCHANGED << env, completed, restartTimers, peer, launched, ident >>

SockOpen(s) ==
    /\ running
    /\ socks[s] = "CONNECTING"
    /\ evSeq < MaxEvents
    /\ LET ev == evSeq + 1
           hb == startHeartbeat(wsTimerHeartbeat, hbTimers, now)
       IN  /\ evSeq' = ev
           /\ socks' = [socks EXCEPT ![s] = "OPEN"]
           /\ ws' = ws
           /\ reconnectAttempts' = 0
           /\ lastPongAt' = now
           /\ wsTimerHeartbeat' = hb.handle
           /\ hbTimers' = hb.timers
           /\ Send(<< Msg("hello", ev, "none") >>)
           /\ inflight' = IF cfg.sendOnConnect
                          THEN inflight \cup {Op("connect", ev, "none")}
                          ELSE inflight
    /\ lastSched' = NoSched
    /\ events' = Append(events,
                        Event("open", "none", FALSE, "none", 0, TRUE))
    /\ UNCHANGED << cfg, now, running, shuttingDown, wsTimerReconnect,
                    rcTimers, timerReport, lastSnapshot >>
    /\ UNCHANGED << env, completed, restartTimers, peer, launched, ident >>

-----------------------------------------------------------------------------
(* ws.on("close") and ws.on("error") *)

\* the close handler without its scheduleReconnect() call
OnCloseNoReconnect(jitter) ==
    LET hb == stopHeartbeat(wsTimerHeartbeat, hbTimers)
    IN  /\ wsTimerHeartbeat' = hb.handle
        /\ hbTimers' = hb.timers
        /\ reconnectAttempts' = reconnectAttempts + 1
        /\ UNCHANGED << wsTimerReconnect, rcTimers, lastSched >>

\* the close handler without its reconnectAttempts++
OnCloseKeepCount(jitter) ==
    LET hb == stopHeartbeat(wsTimerHeartbeat, hbTimers)
        n == reconnectAttempts
        rc == scheduleReconnect(wsTimerReconnect, rcTimers, n, jitter,
                                shuttingDown)
    IN  /\ wsTimerHeartbeat' = hb.handle
        /\ hbTimers' = hb.timers
        /\ reconnectAttempts' = n
        /\ wsTimerReconnect' = rc.handle
        /\ rcTimers' = rc.timers
        /\ lastSched' = IF rc.timers = rcTimers THEN lastSched
                        ELSE [attempts |-> n,
                              delay |-> Backoff(n) + jitter,
                              backoff |-> Backoff(n)]

\* the close handler: stopHeartbeat(); reconnectAttempts++; scheduleReconnect()
OnClose(jitter) ==
    LET hb == stopHeartbeat(wsTimerHeartbeat, hbTimers)
        n == reconnectAttempts + 1
        rc == scheduleReconnect(wsTimerReconnect, rcTimers, n, jitter,
                                shuttingDown)
    IN  /\ wsTimerHeartbeat' = hb.handle
        /\ hbTimers' = hb.timers
        /\ reconnectAttempts' = n
        /\ wsTimerReconnect' = rc.handle
        /\ rcTimers' = rc.timers
        /\ lastSched' = IF rc.timers = rcTimers THEN lastSched
                        ELSE [attempts |-> n,
                              delay |-> Backoff(n) + jitter,
                              backoff |-> Backoff(n)]

\* the error handler only logs
OnError == TRUE

\* a connection attempt fails: 'error' then 'close' are emitted together
SockConnectFail(s) ==
    /\ running
    /\ UNCHANGED << env, events, completed, restartTimers, peer, launched, ident >>
    /\ socks[s] = "CONNECTING"
    /\ reconnectAttempts < MaxAttempts
    /\ socks' = [socks EXCEPT ![s] = "CLOSED"]
    /\ OnError
    /\ \E j \in JitterChoices : OnClose(j)
    /\ UNCHANGED << cfg, now, running, shuttingDown, ws, lastPongAt,
                    timerReport, lastSnapshot, inflight, wire, evSeq,
                    discarded >>

\* the peer starts the closing handshake, or the connection breaks
SockBeginClose(s) ==
    /\ running
    /\ UNCHANGED << env, events, completed, restartTimers, peer, launched, ident >>
    /\ socks[s] = "OPEN"
    /\ socks' = [socks EXCEPT ![s] = "CLOSING"]
    /\ UNCHANGED << cfg, now, running, shuttingDown, ws, wsTimerHeartbeat,
                    hbTimers, wsTimerReconnect, rcTimers, lastPongAt,
                    reconnectAttempts, timerReport, lastSnapshot, inflight,
                    wire, evSeq, discarded, lastSched >>

\* a close handler that also calls connectWS() at once
SockCloseEventReconnectNow(s) ==
    /\ running
    /\ UNCHANGED << env, events, completed, restartTimers, peer, launched, ident >>
    /\ socks[s] \in {"CLOSING", "ABORTED"}
    /\ FreeSocks(socks) # {}
    /\ LET c == connectWS([socks EXCEPT ![s] = "CLOSED"], ws)
       IN  socks' = c.socks /\ ws' = c.ws
    /\ \E j \in JitterChoices : OnClose(j)
    /\ UNCHANGED << cfg, now, running, shuttingDown, lastPongAt,
                    timerReport, lastSnapshot, inflight, wire, evSeq,
                    discarded >>

\* 'close' is emitted for a socket that was closing
SockCloseEvent(s) ==
    /\ running
    /\ UNCHANGED << env, events, completed, restartTimers, peer, launched, ident >>
    /\ socks[s] \in {"CLOSING", "ABORTED"}
    /\ socks' = [socks EXCEPT ![s] = "CLOSED"]
    /\ \E j \in JitterChoices : OnClose(j)
    /\ UNCHANGED << cfg, now, running, shuttingDown, ws, lastPongAt,
                    timerReport, lastSnapshot, inflight, wire, evSeq,
                    discarded >>

-----------------------------------------------------------------------------
(* ws.on("pong") *)

SockPong(s) ==
    /\ running
    /\ UNCHANGED << env, events, completed, restartTimers, peer, launched, ident >>
    /\ socks[s] = "OPEN"
    /\ lastPongAt' = now
    /\ UNCHANGED << cfg, now, running, shuttingDown, socks, ws,
                    wsTimerHeartbeat, hbTimers, wsTimerReconnect, rcTimers,
                    reconnectAttempts, timerReport, lastSnapshot, inflight,
                    wire, evSeq, discarded, lastSched >>

-----------------------------------------------------------------------------
(* the setInterval callback of startHeartbeat *)

\* the test with a threshold of one tick period
StaleAfterOnePeriod == lastPongAt # 0 /\ now - lastPongAt > HeartbeatPeriod

\* lastPongAt && now - lastPongAt > interval * 2
Stale == lastPongAt # 0 /\ now - lastPongAt > HeartbeatInterval * 2

HeartbeatTick(t) ==
    /\ running
    /\ UNCHANGED << env, events, completed, restartTimers, peer, launched, ident >>
    /\ t \in hbTimers
    /\ t.due = now
    /\ hbTimers' = (hbTimers \ {t}) \cup {[t EXCEPT !.due = now + HeartbeatPeriod]}
    /\ socks' = IF SessionOpen(socks, ws) /\ Stale
                THEN [socks EXCEPT ![ws] = "CLOSING"]   \* ws.terminate()
                ELSE socks
    /\ UNCHANGED << cfg, now, running, shuttingDown, ws, wsTimerHeartbeat,
                    wsTimerReconnect, rcTimers, lastPongAt, reconnectAttempts,
                    timerReport, lastSnapshot, inflight, wire, evSeq,
                    discarded, lastSched >>

AdvanceTime ==
    /\ running
    /\ UNCHANGED << env, events, completed, restartTimers, peer, launched, ident >>
    /\ now + HeartbeatPeriod <= StartTime + MaxAdvance * HeartbeatPeriod
    /\ \A t \in hbTimers : t.due >= now + HeartbeatPeriod
    /\ now' = now + HeartbeatPeriod
    /\ UNCHANGED << cfg, running, shuttingDown, socks, ws, wsTimerHeartbeat,
                    hbTimers, wsTimerReconnect, rcTimers, lastPongAt,
                    reconnectAttempts, timerReport, lastSnapshot, inflight,
                    wire, evSeq, discarded, lastSched >>

-----------------------------------------------------------------------------
(* the setTimeout callback of scheduleReconnect *)

\* setInterval in place of setTimeout: the timer stays armed
ReconnectTimerFireInterval(t) ==
    /\ running
    /\ UNCHANGED << env, events, completed, restartTimers, peer, launched, ident >>
    /\ t \in rcTimers
    /\ t.beforeExit
    /\ FreeSocks(socks) # {}
    /\ wsTimerReconnect' = 0
    /\ LET c == connectWS(socks, ws)
       IN  socks' = c.socks /\ ws' = c.ws
    /\ UNCHANGED << cfg, now, running, shuttingDown, wsTimerHeartbeat,
                    hbTimers, rcTimers, lastPongAt, reconnectAttempts,
                    timerReport, lastSnapshot, inflight, wire, evSeq,
                    discarded, lastSched >>

\* the attempt counter reset when the retry starts, not when it succeeds
ReconnectTimerFireReset(t) ==
    /\ running
    /\ UNCHANGED << env, events, completed, restartTimers, peer, launched, ident >>
    /\ t \in rcTimers
    /\ t.beforeExit
    /\ cfg.url => FreeSocks(socks) # {}
    /\ rcTimers' = rcTimers \ {t}
    /\ wsTimerReconnect' = 0
    /\ reconnectAttempts' = 0
    /\ LET c == connectWS(socks, ws)
       IN  socks' = c.socks /\ ws' = c.ws
    /\ UNCHANGED << cfg, now, running, shuttingDown, wsTimerHeartbeat,
                    hbTimers, lastPongAt, timerReport, lastSnapshot, inflight,
                    wire, evSeq, discarded, lastSched >>

ReconnectTimerFire(t) ==
    /\ running
    /\ UNCHANGED << env, events, completed, restartTimers, peer, launched, ident >>
    /\ t \in rcTimers
    /\ t.beforeExit
    /\ cfg.url => FreeSocks(socks) # {}
    /\ rcTimers' = rcTimers \ {t}
    /\ wsTimerReconnect' = 0
    /\ LET c == connectWS(socks, ws)
       IN  socks' = c.socks /\ ws' = c.ws
    /\ UNCHANGED << cfg, now, running, shuttingDown, wsTimerHeartbeat,
                    hbTimers, lastPongAt, reconnectAttempts, timerReport,
                    lastSnapshot, inflight, wire, evSeq, discarded,
                    lastSched >>

-----------------------------------------------------------------------------
(* handleMessage, up to its first await *)

\* the default case falling through to the getSnapshot case
handleMessageFallThrough(s, type, id) ==
    /\ running
    /\ socks[s] \in {"OPEN", "CLOSING"}
    /\ evSeq < MaxEvents
    /\ \E restart, found \in BOOLEAN, args \in peer :
         LET ev == evSeq + 1
             install == type = "runInstall"
             open == SessionOpen(socks, ws)
         IN  /\ ~install => ~restart /\ found /\ args = << >>
             /\ launched' = IF install /\ found
                            THEN launched \cup {runLocalInstallSh(ev, args)}
                            ELSE launched
             /\ evSeq' = ev
             /\ UNCHANGED << socks, ws >>
             /\ Send(IF type = "ping"
                     THEN << Msg("pong", ev, "none") >>  \* ts not modelled
                     ELSE IF install /\ ~found
                          THEN << InstallResultMsg(ev, id, FALSE) >>
                          ELSE << >>)
             /\ inflight' =
                   IF type \in {"getSnapshot", "refresh", "other"}
                   THEN inflight \cup {Op(type, ev, id)}
                   ELSE IF install /\ found
                        THEN inflight \cup {InstallOp(ev, id, restart)}
                        ELSE inflight
             /\ events' = Append(events,
                   IF install
                   THEN Event(type, id, restart,
                              IF found THEN "running" ELSE "missing", 0,
                              open)
                   ELSE Event(type, id, FALSE, "none", 0, open))
    /\ UNCHANGED << cfg, now, running, shuttingDown, wsTimerHeartbeat,
                    hbTimers, wsTimerReconnect, rcTimers, lastPongAt,
                    reconnectAttempts, timerReport, lastSnapshot, lastSched >>
    /\ UNCHANGED << env, completed, restartTimers, peer, ident >>

\* restart: !!data.restart; found: fs.existsSync(installSh)
\* a ping answered with two pongs
handleMessagePongTwice(s, type, id) ==
    /\ running
    /\ socks[s] \in {"OPEN", "CLOSING"}
    /\ evSeq < MaxEvents
    /\ \E restart, found \in BOOLEAN, args \in peer :
         LET ev == evSeq + 1
             install == type = "runInstall"
             open == SessionOpen(socks, ws)
         IN  /\ ~install => ~restart /\ found /\ args = << >>
             /\ launched' = IF install /\ found
                            THEN launched \cup {runLocalInstallSh(ev, args)}
                            ELSE launched
             /\ evSeq' = ev
             /\ UNCHANGED << socks, ws >>
             /\ Send(IF type = "ping"
                     THEN << Msg("pong", ev, "none"),
                             Msg("pong", ev, "none") >>
                     ELSE IF install /\ ~found
                          THEN << InstallResultMsg(ev, id, FALSE) >>
                          ELSE << >>)
             /\ inflight' =
                   IF type \in {"getSnapshot", "refresh"}
                   THEN inflight \cup {Op(type, ev, id)}
                   ELSE IF install /\ found
                        THEN inflight \cup {InstallOp(ev, id, restart)}
                        ELSE inflight
             /\ events' = Append(events,
                   IF install
                   THEN Event(type, id, restart,
                              IF found THEN "running" ELSE "missing", 0,
                              open)
                   ELSE Event(type, id, FALSE, "none", 0, open))
    /\ UNCHANGED << cfg, now, running, shuttingDown, wsTimerHeartbeat,
                    hbTimers, wsTimerReconnect, rcTimers, lastPongAt,
                    reconnectAttempts, timerReport, lastSnapshot, lastSched >>
    /\ UNCHANGED << env, completed, restartTimers, peer, ident >>

handleMessage(s, type, id) ==
    /\ running
    /\ socks[s] \in {"OPEN", "CLOSING"}
    /\ evSeq < MaxEvents
    /\ \E restart, found \in BOOLEAN, args \in peer :
         LET ev == evSeq + 1
             install == type = "runInstall"
             open == SessionOpen(socks, ws)
         IN  /\ ~install => ~restart /\ found /\ args = << >>
             /\ launched' = IF install /\ found
                            THEN launched \cup {runLocalInstallSh(ev, args)}
                            ELSE launched
             /\ evSeq' = ev
             /\ UNCHANGED << socks, ws >>
             /\ Send(IF type = "ping"
                     THEN << Msg("pong", ev, "none") >>  \* ts not modelled
                     ELSE IF install /\ ~found
                          THEN << InstallResultMsg(ev, id, FALSE) >>
                          ELSE << >>)
             /\ inflight' =
                   IF type \in {"getSnapshot", "refresh"}
                   THEN inflight \cup {Op(type, ev, id)}
                   ELSE IF install /\ found
                        THEN inflight \cup {InstallOp(ev, id, restart)}
                        ELSE inflight
             /\ events' = Append(events,
                   IF install
                   THEN Event(type, id, restart,
                              IF found THEN "running" ELSE "missing", 0,
                              open)
                   ELSE Event(type, id, FALSE, "none", 0, open))
    /\ UNCHANGED << cfg, now, running, shuttingDown, wsTimerHeartbeat,
                    hbTimers, wsTimerReconnect, rcTimers, lastPongAt,
                    reconnectAttempts, timerReport, lastSnapshot, lastSched >>
    /\ UNCHANGED << env, completed, restartTimers, peer, ident >>

-----------------------------------------------------------------------------
(* the setInterval callback of startPeriodicReports, up to its await *)

\* a tick that does nothing while the session is not open
ReportTickWhenOpen ==
    /\ running
    /\ timerReport
    /\ SessionOpen(socks, ws)
    /\ evSeq < MaxEvents
    /\ evSeq' = evSeq + 1
    /\ inflight' = inflight \cup {Op("report", evSeq + 1, "none")}
    /\ events' = Append(events,
                        Event("report", "none", FALSE, "none", 0, TRUE))
    /\ UNCHANGED << env, completed, restartTimers, peer, launched, ident >>
    /\ UNCHANGED << cfg, now, running, shuttingDown, socks, ws,
                    wsTimerHeartbeat, hbTimers, wsTimerReconnect, rcTimers,
                    lastPongAt, reconnectAttempts, timerReport, lastSnapshot,
                    wire, discarded, lastSched >>

\* a tick that also resets the attempt counter
ReportTickResetsCount ==
    /\ running
    /\ timerReport
    /\ evSeq < MaxEvents
    /\ evSeq' = evSeq + 1
    /\ reconnectAttempts' = 0
    /\ inflight' = inflight \cup {Op("report", evSeq + 1, "none")}
    /\ events' = Append(events,
                        Event("report", "none", FALSE, "none", 0, TRUE))
    /\ UNCHANGED << env, completed, restartTimers, peer, launched, ident >>
    /\ UNCHANGED << cfg, now, running, shuttingDown, socks, ws,
                    wsTimerHeartbeat, hbTimers, wsTimerReconnect, rcTimers,
                    lastPongAt, timerReport, lastSnapshot,
                    wire, discarded, lastSched >>

ReportTick ==
    /\ running
    /\ timerReport
    /\ evSeq < MaxEvents
    /\ evSeq' = evSeq + 1
    /\ inflight' = inflight \cup {Op("report", evSeq + 1, "none")}
    /\ events' = Append(events,
                        Event("report", "none", FALSE, "none", 0, TRUE))
    /\ UNCHANGED << env, completed, restartTimers, peer, launched, ident >>
    /\ UNCHANGED << cfg, now, running, shuttingDown, socks, ws,
                    wsTimerHeartbeat, hbTimers, wsTimerReconnect, rcTimers,
                    lastPongAt, reconnectAttempts, timerReport, lastSnapshot,
                    wire, discarded, lastSched >>

-----------------------------------------------------------------------------
(* takeSnapshot resolves and the awaiting handler runs to its end *)

\* the getSnapshot reply built from the cache as it was before the call
RepliesCached(op, snap) ==
    CASE op.kind = "getSnapshot" ->
             << SnapshotMsg(op.ev, op.id, lastSnapshot) >>
      [] op.kind = "refresh" -> << OkMsg(op.ev, op.id, snap),
                                   SnapshotMsg(op.ev, "none", snap) >>
      [] OTHER -> << SnapshotMsg(op.ev, "none", snap) >>

\* snap is what await takeSnapshot() returned to the handler
Replies(op, snap) ==
    CASE op.kind = "getSnapshot" -> << SnapshotMsg(op.ev, op.id, snap) >>
      [] op.kind = "refresh" -> << OkMsg(op.ev, op.id, snap),
                                   SnapshotMsg(op.ev, "none", snap) >>
      [] OTHER -> << SnapshotMsg(op.ev, "none", snap) >>

\* the cache written only by a run that started after the one it holds
takeSnapshotByStart(op) ==
    /\ running
    /\ op \in inflight
    /\ op.kind # "runInstall"
    /\ inflight' = inflight \ {op}
    /\ UNCHANGED << socks, ws >>
    /\ \E unitOut \in env.unitOuts, psOut \in env.psOuts :
         LET snap == Combined(op.ev, env, unitOut, psOut, now)
         IN  /\ lastSnapshot' = IF op.ev > lastSnapshot.run THEN snap
                                ELSE lastSnapshot
             /\ Send(Replies(op, snap))
             /\ completed' = Append(completed,
                   Completion(op.ev, SessionOpen(socks, ws), env, unitOut,
                              psOut, now))
    /\ UNCHANGED << cfg, now, running, shuttingDown, wsTimerHeartbeat,
                    hbTimers, wsTimerReconnect, rcTimers, lastPongAt,
                    reconnectAttempts, timerReport, evSeq, lastSched >>
    /\ UNCHANGED << env, events, restartTimers, peer, launched, ident >>

\* the new list stored next to the timestamp the cache already had
takeSnapshotKeepStamp(op) ==
    /\ running
    /\ op \in inflight
    /\ op.kind # "runInstall"
    /\ inflight' = inflight \ {op}
    /\ UNCHANGED << socks, ws >>
    /\ \E unitOut \in env.unitOuts, psOut \in env.psOuts :
         LET snap == Combined(op.ev, env, unitOut, psOut, now)
         IN  /\ lastSnapshot' =
                   [snap EXCEPT !.takenAt = lastSnapshot.takenAt]
             /\ Send(Replies(op, snap))
             /\ completed' = Append(completed,
                   Completion(op.ev, SessionOpen(socks, ws), env, unitOut,
                              psOut, now))
    /\ UNCHANGED << cfg, now, running, shuttingDown, wsTimerHeartbeat,
                    hbTimers, wsTimerReconnect, rcTimers, lastPongAt,
                    reconnectAttempts, timerReport, evSeq, lastSched >>
    /\ UNCHANGED << env, events, restartTimers, peer, launched, ident >>

takeSnapshot(op) ==
    /\ running
    /\ op \in inflight
    /\ op.kind # "runInstall"
    /\ inflight' = inflight \ {op}
    /\ UNCHANGED << socks, ws >>
    /\ \E unitOut \in env.unitOuts, psOut \in env.psOuts :
         LET snap == Combined(op.ev, env, unitOut, psOut, now)
         IN  /\ lastSnapshot' = snap
             /\ Send(Replies(op, snap))
             /\ completed' = Append(completed,
                   Completion(op.ev, SessionOpen(socks, ws), env, unitOut,
                              psOut, now))
    /\ UNCHANGED << cfg, now, running, shuttingDown, wsTimerHeartbeat,
                    hbTimers, wsTimerReconnect, rcTimers, lastPongAt,
                    reconnectAttempts, timerReport, evSeq, lastSched >>
    /\ UNCHANGED << env, events, restartTimers, peer, launched, ident >>

-----------------------------------------------------------------------------
(* the install script's child process closes and the handler runs to its end *)

\* the pending timeouts after setTimeout(() => restartSelf(), 500)
scheduleRestart(timers, ev, closing) ==
    timers \cup {[ev |-> ev,
                  beforeExit |-> (~closing \/ RestartDelayMs < ExitGraceMs)]}

\* the restart armed after the try block, whatever the exit code
ChildCloseAlwaysRestart(op) ==
    /\ running
    /\ op \in inflight
    /\ op.kind = "runInstall"
    /\ inflight' = inflight \ {op}
    /\ UNCHANGED << socks, ws >>
    /\ \E code \in ExitCodes :
         /\ Send(<< InstallResultMsg(op.ev, op.id, code = 0) >>)
         /\ restartTimers' = IF op.restart
                             THEN scheduleRestart(restartTimers, op.ev,
                                                  shuttingDown)
                             ELSE restartTimers
         /\ events' = [events EXCEPT ![op.ev].script = "exited",
                                     ![op.ev].code = code,
                                     ![op.ev].open = SessionOpen(socks, ws)]
    /\ UNCHANGED << cfg, now, running, shuttingDown, wsTimerHeartbeat,
                    hbTimers, wsTimerReconnect, rcTimers, lastPongAt,
                    reconnectAttempts, timerReport, lastSnapshot, evSeq,
                    lastSched, env, completed, peer, launched, ident >>

\* the restart armed after every successful run, asked for or not
ChildCloseRestartUnasked(op) ==
    /\ running
    /\ op \in inflight
    /\ op.kind = "runInstall"
    /\ inflight' = inflight \ {op}
    /\ UNCHANGED << socks, ws >>
    /\ \E code \in ExitCodes :
         /\ Send(<< InstallResultMsg(op.ev, op.id, code = 0) >>)
         /\ restartTimers' = IF code = 0
                             THEN scheduleRestart(restartTimers, op.ev,
                                                  shuttingDown)
                             ELSE restartTimers
         /\ events' = [events EXCEPT ![op.ev].script = "exited",
                                     ![op.ev].code = code,
                                     ![op.ev].open = SessionOpen(socks, ws)]
    /\ UNCHANGED << cfg, now, running, shuttingDown, wsTimerHeartbeat,
                    hbTimers, wsTimerReconnect, rcTimers, lastPongAt,
                    reconnectAttempts, timerReport, lastSnapshot, evSeq,
                    lastSched, env, completed, peer, launched, ident >>

ChildClose(op) ==
    /\ running
    /\ op \in inflight
    /\ op.kind = "runInstall"
    /\ inflight' = inflight \ {op}
    /\ UNCHANGED << socks, ws >>
    /\ \E code \in ExitCodes :
         /\ Send(<< InstallResultMsg(op.ev, op.id, code = 0) >>)
         /\ restartTimers' = IF code = 0 /\ op.restart
                             THEN scheduleRestart(restartTimers, op.ev,
                                                  shuttingDown)
                             ELSE restartTimers
         /\ events' = [events EXCEPT ![op.ev].script = "exited",
                                     ![op.ev].code = code,
                                     ![op.ev].open = SessionOpen(socks, ws)]
    /\ UNCHANGED << cfg, now, running, shuttingDown, wsTimerHeartbeat,
                    hbTimers, wsTimerReconnect, rcTimers, lastPongAt,
                    reconnectAttempts, timerReport, lastSnapshot, evSeq,
                    lastSched, env, completed, peer, launched, ident >>

\* restartSelf(): the supervisor is asked to restart the agent and the call
\* returns, or the process exits
RestartOutcomes(h) ==
    IF h.platform \in {"linux", "darwin"} THEN {"return", "exit"}
    ELSE {"exit"}

RestartTimerFire(t) ==
    /\ running
    /\ t \in restartTimers
    /\ t.beforeExit
    /\ restartTimers' = restartTimers \ {t}
    /\ \E o \in RestartOutcomes(env) : running' = (o = "return")
    /\ UNCHANGED << cfg, now, shuttingDown, socks, ws, wsTimerHeartbeat,
                    hbTimers, wsTimerReconnect, rcTimers, lastPongAt,
                    reconnectAttempts, timerReport, lastSnapshot, inflight,
                    wire, evSeq, discarded, lastSched, env, events,
                    completed, peer, launched, ident >>

-----------------------------------------------------------------------------
(* shutdown(sig) and the process.exit it schedules *)

\* readyState after ws.close(); ABORTED is readyState CLOSING of a socket
\* whose handshake was aborted: it never opened and receives no frame
wsClose(st) ==
    IF st = "CONNECTING" THEN "ABORTED"
    ELSE IF st = "OPEN" THEN "CLOSING" ELSE st

shutdown ==
    /\ running
    /\ UNCHANGED << env, events, completed, restartTimers, peer, launched, ident >>
    /\ ~shuttingDown
    /\ LET hb == stopHeartbeat(wsTimerHeartbeat, hbTimers)
       IN  wsTimerHeartbeat' = hb.handle /\ hbTimers' = hb.timers
    /\ timerReport' = FALSE
    /\ socks' = IF ws # 0 THEN [socks EXCEPT ![ws] = wsClose(socks[ws])]
                ELSE socks
    /\ shuttingDown' = TRUE
    /\ UNCHANGED << cfg, now, running, ws, wsTimerReconnect, rcTimers,
                    lastPongAt, reconnectAttempts, lastSnapshot, inflight,
                    wire, evSeq, discarded, lastSched >>

\* an exit that waits for the enumerations and scripts in flight
ProcessExitWhenIdle ==
    /\ running
    /\ UNCHANGED << env, events, completed, restartTimers, peer, launched, ident >>
    /\ shuttingDown
    /\ inflight = {}
    /\ running' = FALSE
    /\ UNCHANGED << cfg, now, shuttingDown, socks, ws, wsTimerHeartbeat,
                    hbTimers, wsTimerReconnect, rcTimers, lastPongAt,
                    reconnectAttempts, timerReport, lastSnapshot, inflight,
                    wire, evSeq, discarded, lastSched >>

\* the timeout armed by shutdown fires: process.exit(0)
ProcessExit ==
    /\ running
    /\ UNCHANGED << env, events, completed, restartTimers, peer, launched, ident >>
    /\ shuttingDown
    /\ running' = FALSE
    /\ UNCHANGED << cfg, now, shuttingDown, socks, ws, wsTimerHeartbeat,
                    hbTimers, wsTimerReconnect, rcTimers, lastPongAt,
                    reconnectAttempts, timerReport, lastSnapshot, inflight,
                    wire, evSeq, discarded, lastSched >>

-----------------------------------------------------------------------------

SessionNext ==
    \/ \E s \in SockIds : SockOpen(s)
    \/ \E s \in SockIds : SockConnectFail(s)
    \/ \E s \in SockIds : SockBeginClose(s)
    \/ \E s \in SockIds : SockCloseEvent(s)
    \/ \E s \in SockIds : SockPong(s)
    \/ \E t \in rcTimers : ReconnectTimerFire(t)
    \/ shutdown
    \/ ProcessExit

Next ==
    \/ SessionNext
    \/ AdvanceTime
    \/ \E t \in hbTimers : HeartbeatTick(t)

Spec == Init /\ [][Next]_vars

InitMsg == InitState(DefaultConfig, BusyHost, NoArgs)

NextMsg ==
    \/ \E s \in SockIds : SockOpen(s)
    \/ \E s \in SockIds : SockBeginClose(s)
    \/ \E s \in SockIds : SockCloseEvent(s)
    \/ \E t \in rcTimers : ReconnectTimerFire(t)
    \/ shutdown
    \/ ProcessExit
    \/ \E s \in SockIds, type \in MessageTypes, id \in RequestIds :
           handleMessage(s, type, id)
    \/ ReportTick
    \/ \E op \in inflight : takeSnapshot(op)
    \/ \E op \in inflight : ChildClose(op)
    \/ \E t \in restartTimers : RestartTimerFire(t)

MsgSpec == InitMsg /\ [][NextMsg]_vars

InitShell == InitState(DefaultConfig, PlainHost, AnyArgs)

NextShell ==
    \/ \E s \in SockIds : SockOpen(s)
    \/ \E s \in SockIds, id \in RequestIds :
           handleMessage(s, "runInstall", id)
    \/ \E op \in inflight : ChildClose(op)

ShellSpec == InitShell /\ [][NextShell]_vars

\* no session (no url configured): the reporting timer alone, with the
\* clock running
InitSnap == InitState(Config(FALSE, 0, 0, 0, TRUE), BusyHost, NoArgs)

NextSnap ==
    \/ ReportTick
    \/ \E op \in inflight : takeSnapshot(op)
    \/ AdvanceTime

SnapSpec == InitSnap /\ [][NextSnap]_vars

\* the enumerators applied to every output of a family of hosts, by the
\* prime run and the runs of the reporting timer
InitEnum ==
    \E pf \in Platforms, d \in BOOLEAN, f \in Filters :
        \E u \in UnitOutputs(pf), p \in PsOutputs(d) :
            InitState(Config(FALSE, 0, 0, 0, TRUE),
                      Host(pf, f[1], f[2], d, {u}, {p}), NoArgs)

NextEnum ==
    \/ ReportTick
    \/ \E op \in inflight : takeSnapshot(op)

EnumSpec == InitEnum /\ [][NextEnum]_vars

\* the Linux enumerator applied to units in every state, by the prime run
\* and the runs of the reporting timer
InitHealth ==
    \E u \in SeqsUpTo(PrintedSections, MaxLines) :
        InitState(Config(FALSE, 0, 0, 0, TRUE),
                  Host("linux", {}, {}, FALSE, {u}, { << >> }), NoArgs)

NextHealth ==
    \/ ReportTick
    \/ \E op \in inflight : takeSnapshot(op)

HealthSpec == InitHealth /\ [][NextHealth]_vars

\* the starts of the agent on one machine, up to the initSystemId call
InitId ==
    \E i \in Idents :
        InitBoot(Config(FALSE, 0, 0, 0, TRUE), PlainHost, NoArgs, i)

NextId ==
    \/ ResolveId
    \/ HardwareChange

IdSpec == InitId /\ [][NextId]_vars

\* the first session with its requests, a signal, and the event loop
\* running the exit timeout
NextExit ==
    \/ \E s \in SockIds : SockOpen(s)
    \/ \E s \in SockIds : SockBeginClose(s)
    \/ \E s \in SockIds : SockCloseEvent(s)
    \/ \E s \in SockIds, type \in MessageTypes, id \in RequestIds :
           handleMessage(s, type, id)
    \/ \E op \in inflight : takeSnapshot(op)
    \/ \E op \in inflight : ChildClose(op)
    \/ shutdown
    \/ ProcessExit

ExitSpec == InitMsg /\ [][NextExit]_vars /\ WF_vars(ProcessExit)

\* sessions opening and closing with the clock running, with and without
\* the connect-time report
InitOpen ==
    \E c \in {DefaultConfig, Config(TRUE, 0, 0, 0, FALSE)} :
        InitState(c, PlainHost, NoArgs)

NextOpen ==
    \/ \E s \in SockIds : SockOpen(s)
    \/ \E s \in SockIds : SockConnectFail(s)
    \/ \E s \in SockIds : SockBeginClose(s)
    \/ \E s \in SockIds : SockCloseEvent(s)
    \/ \E t \in rcTimers : ReconnectTimerFire(t)
    \/ \E op \in inflight : takeSnapshot(op)
    \/ \E t \in hbTimers : HeartbeatTick(t)
    \/ AdvanceTime

OpenSpec == InitOpen /\ [][NextOpen]_vars

LiveSpec ==
    /\ Spec
    /\ WF_vars(\E s \in SockIds : SockCloseEvent(s))
    /\ WF_vars(\E t \in rcTimers : ReconnectTimerFire(t))

-----------------------------------------------------------------------------
(* Claims *)

Disconnected == ws # 0 /\ socks[ws] = "CLOSED"
Connecting == ws # 0 /\ socks[ws] = "CONNECTING"

\* C1: in every reachable state at most one reconnect timer is pending, and
\* the handle wsTimerReconnect is null exactly when none is.
C1_OneReconnectTimer ==
    /\ Cardinality(rcTimers) <= 1
    /\ \A t \in rcTimers : t.id = wsTimerReconnect
    /\ wsTimerReconnect # 0 => rcTimers # {}

\* the timer armed after a second close in a row
C1_Witness == Cardinality(rcTimers) = 1 /\ reconnectAttempts >= 2

\* C2: once shutdown(sig) has run, no step arms a reconnect timer and no
\* step starts a connection attempt.
C2_NoReconnectAfterShutdown ==
    [][shuttingDown =>
          /\ rcTimers' \subseteq rcTimers
          /\ \A s \in SockIds :
                 socks'[s] = "CONNECTING" => socks[s] = "CONNECTING"]_vars

\* C3: after shutdown(sig) has run and until the process exits, neither the
\* heartbeat interval, nor the report interval, nor a reconnect timeout is
\* pending.
C3_NoTimerAfterShutdown ==
    (running /\ shuttingDown) =>
        (hbTimers = {} /\ rcTimers = {} /\ ~timerReport)

\* C4: when the heartbeat tick for the current instant has run and the last
\* pong (or the open) is older than twice the configured heartbeat interval,
\* the session is no longer open.
C4_StaleTerminatedByTick ==
    \A t \in hbTimers :
        ( /\ t.id = wsTimerHeartbeat
          /\ t.due = now + HeartbeatPeriod
          /\ ws # 0
          /\ now - lastPongAt > 2 * HeartbeatPeriod )
        => socks[ws] # "OPEN"

\* C5: a session failure does not end the process, and after a failure seen
\* while no shutdown is in progress a new connection attempt is started,
\* unless a shutdown signal arrives first.
C5_FailureRecovered ==
    /\ [][(running /\ ~shuttingDown) => running']_vars
    /\ (ws # 0 /\ socks[ws] \in {"CLOSING", "CLOSED"} /\ ~shuttingDown)
           ~> (Connecting \/ shuttingDown)

\* a second attempt is under way after the first one failed
C5_Witness == ws = 2 /\ Connecting /\ reconnectAttempts >= 1 /\ ~shuttingDown

\* C6 as stated: the delay is computed from the configured base and max.
C6_DelayFromConfigured ==
    \A t \in rcTimers :
        \E j \in 0 .. 199 :
            t.delay = MinOf(cfg.reconnectMaxMs,
                            cfg.reconnectBaseMs * Pow2(reconnectAttempts)) + j

\* C6 amended: every pending reconnect delay is min(max', base' * 2^attempts)
\* + j with 0 <= j < 200, where base' is the configured base (1000 when
\* unset) raised to at least 100 and max' is the configured max (30000 when
\* unset) raised to at least base'.
C6_DelayFromClamped ==
    LET b0 == IF cfg.reconnectBaseMs = 0 THEN 1000 ELSE cfg.reconnectBaseMs
        b == IF b0 < 100 THEN 100 ELSE b0
        m0 == IF cfg.reconnectMaxMs = 0 THEN 30000 ELSE cfg.reconnectMaxMs
        m == IF m0 < b THEN b ELSE m0
    IN  \A t \in rcTimers :
            \E j \in 0 .. 199 :
                t.delay = MinOf(m, b * Pow2(reconnectAttempts)) + j

\* a delay computed from a configured base below the floor
C6_Witness ==
    /\ rcTimers # {}
    /\ cfg.reconnectBaseMs \in 1 .. 99
    /\ reconnectAttempts >= 2

C7_Bounds(lower(_)) ==
    \A t \in rcTimers :
        /\ lower(t.attempts) <= t.delay
        /\ t.delay <= MinOf(ReconnectMax, ReconnectBase * Pow2(t.attempts)) + 200

\* consecutive failures n, n+1, both below the cap: the delay does not shrink
C7_Monotone ==
    ( /\ lastSched # NoSched
      /\ lastSched' # NoSched
      /\ lastSched'.attempts = lastSched.attempts + 1
      /\ ReconnectBase * Pow2(lastSched'.attempts) <= ReconnectMax )
    => lastSched'.delay >= lastSched.delay

C7_Uncapped(n) == ReconnectBase * Pow2(n)
C7_Capped(n) == MinOf(ReconnectMax, ReconnectBase * Pow2(n))

\* C7 as stated: base*2^n <= delay <= min(max, base*2^n) + 200, and the delay
\* does not decrease from n to n+1 below the cap.
C7_DelayBoundsAsStated ==
    /\ [] C7_Bounds(C7_Uncapped)
    /\ [][C7_Monotone]_vars

\* C7 amended: min(max, base*2^n) <= delay <= min(max, base*2^n) + 200, and
\* the delay does not decrease from n to n+1 below the cap (base and max as
\* the code clamps them).
C7_DelayBounds ==
    /\ [] C7_Bounds(C7_Capped)
    /\ [][C7_Monotone]_vars

\* a capped delay, shorter than base*2^n
C7_Witness ==
    \E t \in rcTimers :
        /\ ReconnectBase * Pow2(t.attempts) > ReconnectMax
        /\ t.delay < ReconnectBase * Pow2(t.attempts)

\* C8: the attempt counter decreases only in the step in which a connecting
\* session opens, and that step sets it to zero.
C8_ResetOnlyByOpen ==
    [][reconnectAttempts' < reconnectAttempts =>
          /\ reconnectAttempts' = 0
          /\ \E s \in SockIds :
                 socks[s] = "CONNECTING" /\ socks'[s] = "OPEN"]_vars

\* the counter back at zero on the session opened after a failure
C8_Witness == ws = 2 /\ socks[2] = "OPEN" /\ reconnectAttempts = 0

\* C9: a message wsSend was given while the session was not open is on no
\* frame sent, then or later.
C9_DiscardedNeverSent ==
    \A m \in discarded : \A i \in DOMAIN wire : wire[i] # m

\* a message was discarded and a later event's message went out
C9_Witness ==
    \E m \in discarded : \E i \in DOMAIN wire : wire[i].ev > m.ev

\* C10: frames go out in the order of the events that caused them.
C10_SentInEventOrder ==
    \A i, j \in DOMAIN wire : i < j => wire[i].ev <= wire[j].ev

-----------------------------------------------------------------------------
(* Requests and replies *)

\* the positions in wire of the frames of one type that event ev caused
Frames(type, ev) ==
    {j \in DOMAIN wire : wire[j].type = type /\ wire[j].ev = ev}

\* the completed takeSnapshot runs that requests of one kind started
RunsOf(kind) ==
    {i \in DOMAIN completed :
        completed[i].ev # 0 /\ events[completed[i].ev].kind = kind}

ServicesOf(c) == c.parts[1] \o c.parts[2]

\* C11: a getSnapshot request whose enumeration completes while the session
\* is open is answered by exactly one snapshot frame; the frame carries the
\* request's id and the list of the enumeration the request started.
C11_GetSnapshotReply ==
    \A i \in RunsOf("getSnapshot") :
        LET c == completed[i]
        IN  c.open =>
              /\ Cardinality(Frames("snapshot", c.ev)) = 1
              /\ \A j \in Frames("snapshot", c.ev) :
                    /\ wire[j].id = events[c.ev].id
                    /\ wire[j].run = c.ev
                    /\ wire[j].services = ServicesOf(c)
                    /\ wire[j].takenAt = c.takenAt

\* a getSnapshot was answered while the cache held a different list
C11_Witness ==
    \E i \in RunsOf("getSnapshot") :
        /\ completed[i].open
        /\ i > 1
        /\ ServicesOf(completed[i]) # ServicesOf(completed[i - 1])

\* C12: a refresh request whose handler replies while the session is open
\* is answered by one ok frame whose count is the number of services of the
\* snapshot just taken, and the next frame on the wire is the one snapshot
\* frame of that request, with the same list.
C12_RefreshReply ==
    \A i \in RunsOf("refresh") :
        LET c == completed[i]
        IN  c.open =>
              \E j \in DOMAIN wire :
                  /\ Frames("ok", c.ev) = {j}
                  /\ Frames("snapshot", c.ev) = {j + 1}
                  /\ wire[j].count = Len(ServicesOf(c))
                  /\ wire[j + 1].services = ServicesOf(c)
                  /\ wire[j].takenAt = wire[j + 1].takenAt

\* a refresh was answered on a session that had sent other frames, and the
\* snapshot taken has another length than the one cached before
C12_Witness ==
    \E i \in RunsOf("refresh") :
        /\ completed[i].open
        /\ i > 1
        /\ Len(ServicesOf(completed[i])) # Len(ServicesOf(completed[i - 1]))
        /\ \E j \in Frames("ok", completed[i].ev) : j > 2

\* the runInstall requests whose handler has run to its end
Installs ==
    {ev \in DOMAIN events :
        events[ev].kind = "runInstall" /\ events[ev].script # "running"}

Succeeded(ev) == events[ev].script = "exited" /\ events[ev].code = 0

\* the installResult messages of event ev that wsSend discarded
DiscardedResults(ev) ==
    {m \in discarded : m.type = "installResult" /\ m.ev = ev}

\* a process that has exited was told to by a signal, or restarted itself
\* after an install that succeeded; restarts are armed by those only
RestartOnlyAfterSuccess ==
    /\ \A t \in restartTimers :
          Succeeded(t.ev) /\ events[t.ev].restart
    /\ ~running =>
          \/ shuttingDown
          \/ \E ev \in Installs :
                /\ Succeeded(ev) /\ events[ev].restart
                /\ \A t \in restartTimers : t.ev # ev

\* C13 as stated: every runInstall request whose script has finished or
\* was missing has exactly one installResult frame sent, with ok true
\* exactly for exit code 0; a failure arms no restart and does not end the
\* process.
C13_InstallResultAsStated ==
    /\ \A ev \in Installs :
          /\ Cardinality(Frames("installResult", ev)) = 1
          /\ \A j \in Frames("installResult", ev) :
                wire[j].ok = Succeeded(ev)
    /\ RestartOnlyAfterSuccess

\* C13: every runInstall request whose script has finished or was missing
\* has handed exactly one installResult to wsSend, with ok true exactly for
\* exit code 0 and the request's id: it is on the wire once if the session
\* was open at that moment and was discarded otherwise; an unfinished
\* install has none; a failure arms no restart and does not end the
\* process.
C13_InstallResult ==
    /\ \A ev \in Installs :
          LET expected ==
                  InstallResultMsg(ev, events[ev].id, Succeeded(ev))
          IN  IF events[ev].open
              THEN /\ Cardinality(Frames("installResult", ev)) = 1
                   /\ \A j \in Frames("installResult", ev) :
                         wire[j] = expected
                   /\ DiscardedResults(ev) = {}
              ELSE /\ Frames("installResult", ev) = {}
                   /\ DiscardedResults(ev) = {expected}
    /\ \A ev \in DOMAIN events :
          events[ev].script = "running" =>
              /\ Frames("installResult", ev) = {}
              /\ DiscardedResults(ev) = {}
    /\ RestartOnlyAfterSuccess

\* an install that asked for a restart failed with exit code 1 and its
\* result was sent, and the process runs
C13_Witness ==
    \E ev \in Installs :
        /\ events[ev].script = "exited" /\ events[ev].code = 1
        /\ events[ev].restart /\ events[ev].open
        /\ Frames("installResult", ev) # {}
        /\ running

\* C14: the step that handles a frame which does not parse, or whose type
\* is none of ping, getSnapshot, refresh, runInstall, sends and discards
\* nothing, starts no enumeration and no command, and leaves the cache, the
\* sockets, the timers and the counters as they were.
C14_IgnoredFrame ==
    [][(/\ Len(events') = Len(events) + 1
        /\ events'[Len(events')].kind \in {"other", "malformed"})
       => /\ wire' = wire /\ discarded' = discarded
          /\ inflight' = inflight /\ restartTimers' = restartTimers
          /\ lastSnapshot' = lastSnapshot /\ completed' = completed
          /\ socks' = socks /\ ws' = ws
          /\ wsTimerHeartbeat' = wsTimerHeartbeat /\ hbTimers' = hbTimers
          /\ wsTimerReconnect' = wsTimerReconnect /\ rcTimers' = rcTimers
          /\ lastPongAt' = lastPongAt
          /\ reconnectAttempts' = reconnectAttempts
          /\ running' = running /\ shuttingDown' = shuttingDown]_vars

\* a frame that does not parse was handled while the session was open and
\* an enumeration was running
C14_Witness ==
    \E ev \in DOMAIN events :
        /\ events[ev].kind = "malformed" /\ events[ev].open
        /\ ev = Len(events) /\ inflight # {}

\* the type of the reply to a request of each kind; the snapshot frame that
\* follows the ok of a refresh is unsolicited and not counted as a reply
ReplyType(kind) ==
    CASE kind = "ping" -> "pong"
      [] kind = "getSnapshot" -> "snapshot"
      [] kind = "refresh" -> "ok"
      [] kind = "runInstall" -> "installResult"
      [] OTHER -> "none"

\* C15: every reply frame sent for a recognized request that carried an id
\* carries that id.
C15_RepliesEchoId ==
    \A j \in DOMAIN wire :
        LET e == events[wire[j].ev]
        IN  (e.id # "none" /\ wire[j].type = ReplyType(e.kind))
                => wire[j].id = e.id

-----------------------------------------------------------------------------
(* The install command *)

\* C16: whatever args the peer sends, every program a shell spawned for an
\* install runs is the install script.
C16_OnlyInstallScript ==
    \A l \in launched :
        \A i \in DOMAIN l.programs : l.programs[i] = << InstallSh >>

-----------------------------------------------------------------------------
(* The snapshot cache *)

LastCompleted == completed[Len(completed)]

\* the value a completed run assigned to the cache
ResultOf(c) == [run |-> c.ev, services |-> ServicesOf(c), takenAt |-> c.takenAt]

\* C17: the cache holds the result of the takeSnapshot run that completed
\* last, whichever run started first; so it does when none is pending.
C17_LastCompletionWins == lastSnapshot = ResultOf(LastCompleted)

\* two runs overlapped and the one that started first completed last, with
\* another list, and no run is pending
C17_Witness ==
    /\ Len(completed) >= 3
    /\ LastCompleted.ev # 0
    /\ LastCompleted.ev < completed[Len(completed) - 1].ev
    /\ ServicesOf(LastCompleted) # ServicesOf(completed[Len(completed) - 1])
    /\ inflight = {}

\* C18: the cache is the initial empty snapshot or the whole result of one
\* completed takeSnapshot run: the list its service manager enumerator
\* returned followed by the list its container enumerator returned, with
\* the time of that run's completion.
C18_CacheIsOneRun ==
    \/ lastSnapshot = NoSnapshot
    \/ \E i \in DOMAIN completed :
          /\ lastSnapshot.run = completed[i].ev
          /\ lastSnapshot.services =
                 completed[i].parts[1] \o completed[i].parts[2]
          /\ lastSnapshot.takenAt = completed[i].takenAt

\* the cache was replaced, at a later time, by a run whose two enumerators
\* both returned services and whose list differs from the one before
C18_Witness ==
    /\ Len(completed) >= 2
    /\ lastSnapshot.takenAt > completed[Len(completed) - 1].takenAt
    /\ LastCompleted.parts[1] # << >> /\ LastCompleted.parts[2] # << >>
    /\ ServicesOf(LastCompleted) # ServicesOf(completed[Len(completed) - 1])
    /\ inflight # {}

-----------------------------------------------------------------------------
(* The enumerators *)

Sorted(recs) ==
    \A a, b \in DOMAIN recs :
        a < b => ~NameBefore(recs[b].service, recs[a].service)

\* C19: the list every enumerator returned, in every run, is sorted by
\* service name ascending.
C19_EnumeratorsSorted ==
    \A i \in DOMAIN completed :
        Sorted(completed[i].parts[1]) /\ Sorted(completed[i].parts[2])

\* C20: with a non-empty include list, every record of every snapshot taken
\* has a service name of the list.
C20_OnlyIncluded ==
    env.include # {} =>
        \A i \in DOMAIN completed :
            \A k \in DOMAIN ServicesOf(completed[i]) :
                ServicesOf(completed[i])[k].service \in env.include

\* C21: no record of any snapshot taken has a service name of the exclude
\* list, whatever the include list is.
C21_NoneExcluded ==
    \A i \in DOMAIN completed :
        \A k \in DOMAIN ServicesOf(completed[i]) :
            ServicesOf(completed[i])[k].service \notin env.exclude

\* C22: two records of one snapshot with different service names have
\* different local ids.
C22_LocalIdUnique ==
    \A i \in DOMAIN completed :
        \A a, b \in DOMAIN ServicesOf(completed[i]) :
            ServicesOf(completed[i])[a].service
                    # ServicesOf(completed[i])[b].service
                => ServicesOf(completed[i])[a].id
                       # ServicesOf(completed[i])[b].id

-----------------------------------------------------------------------------
(* Identity *)

\* C23: every identity resolution returns a non-empty identifier.
C23_IdNeverEmpty ==
    \A k \in DOMAIN ident.ids : ident.ids[k].value # << >>

\* C24: once a resolution has written its value to an id file, every later
\* resolution returns that value, whatever the machine id and interfaces
\* have become.
C24_PersistedIdStable ==
    \A j, k \in DOMAIN ident.ids :
        (j < k /\ ident.ids[j].wrote # 0)
            => ident.ids[k].value = ident.ids[j].value

\* two consecutive resolutions with nothing changed between them
SameEnvironment(k) ==
    /\ k + 1 \in DOMAIN ident.ids
    /\ ident.ids[k + 1].changes = ident.ids[k].changes

\* some id file held an identifier when resolution k started
PersistedPresent(k) ==
    \E p \in DOMAIN ident.ids[k].before :
        /\ ident.ids[k].before[p].exists
        /\ TrimWs(ident.ids[k].before[p].content) # << >>

\* C25: two consecutive resolutions in the same environment with an id file
\* present return the same value, and the second one leaves the id files
\* as they were.
C25_Idempotent ==
    \A k \in DOMAIN ident.ids :
        (SameEnvironment(k) /\ PersistedPresent(k))
            => /\ ident.ids[k + 1].value = ident.ids[k].value
               /\ ident.ids[k + 1].after = ident.ids[k + 1].before

-----------------------------------------------------------------------------
(* Shutdown *)

-----------------------------------------------------------------------------
(* The session's open and close handlers *)

\* C27: the step in which a session object emits close, opened or not, leaves
\* no heartbeat timer, adds one to the attempt counter and arms a reconnect
\* timer computed from the counter after the increment.
C27_CloseHandler ==
    [][\A s \in SockIds :
          (socks[s] # "CLOSED" /\ socks'[s] = "CLOSED") =>
              /\ wsTimerHeartbeat' = 0
              /\ hbTimers' = {}
              /\ reconnectAttempts' = reconnectAttempts + 1
              /\ \E t \in rcTimers' \ rcTimers :
                     /\ t.id = wsTimerReconnect'
                     /\ t.attempts = reconnectAttempts']_vars

\* the second attempt in a row closed without ever opening
C27_Witness ==
    /\ ws = 2 /\ socks[2] = "CLOSED"
    /\ lastPongAt = 0
    /\ reconnectAttempts = 2
    /\ hbTimers = {}
    /\ \E t \in rcTimers : t.attempts = 2

\* C28: the step in which a connecting session opens sets the attempt
\* counter to 0 and lastPongAt to the time of the open, leaves exactly one
\* heartbeat timer, and sends hello on that session; the connect-time
\* enumeration is started exactly when sendOnConnect is set, so its snapshot
\* follows the hello of the same open.
C28_OpenHandler ==
    /\ [][\A s \in SockIds :
            (socks[s] = "CONNECTING" /\ socks'[s] = "OPEN") =>
                /\ reconnectAttempts' = 0
                /\ lastPongAt' = now /\ now' = now
                /\ Cardinality(hbTimers') = 1
                /\ \A t \in hbTimers' : t.id = wsTimerHeartbeat'
                /\ ws' = s
                /\ wire' = Append(wire, Msg("hello", evSeq', "none"))
                /\ (Op("connect", evSeq', "none") \in inflight')
                       <=> cfg.sendOnConnect]_vars
    /\ [](\A i \in DOMAIN wire :
             (wire[i].type = "snapshot" /\ events[wire[i].ev].kind = "open")
                 => /\ cfg.sendOnConnect
                    /\ \E j \in 1 .. (i - 1) :
                           wire[j].type = "hello" /\ wire[j].ev = wire[i].ev)

\* the session opened after a failed attempt and after the clock moved, its
\* hello and connect-time snapshot sent
C28_Witness ==
    /\ ws = 2 /\ socks[2] = "OPEN"
    /\ reconnectAttempts = 0
    /\ lastPongAt = now /\ now > StartTime
    /\ Cardinality(hbTimers) = 1
    /\ \E i, j \in DOMAIN wire :
          /\ j < i
          /\ wire[j].type = "hello"
          /\ wire[i].type = "snapshot" /\ wire[i].ev = wire[j].ev

\* the session objects that are connecting or open
Live(sockets) == {s \in SockIds : sockets[s] \in {"CONNECTING", "OPEN"}}

\* C29: a socket starts connecting only in the step of a reconnect timer's
\* expiry (the first one exists at startup) and only when none is connecting
\* or open; at most one socket is connecting or open, and a reconnect timer
\* is pending only while none is.
C29_OneSession ==
    /\ [](Cardinality(Live(socks)) <= 1)
    /\ [](rcTimers # {} => Live(socks) = {})
    /\ [][\A s \in SockIds :
            (socks[s] # "CONNECTING" /\ socks'[s] = "CONNECTING") =>
                /\ Live(socks) = {}
                /\ \E t \in rcTimers : t \notin rcTimers']_vars

\* a second session object is connecting after the first one opened and
\* closed and the reconnect timer expired
C29_Witness ==
    /\ ws = 2 /\ socks[1] = "CLOSED" /\ socks[2] = "CONNECTING"
    /\ rcTimers = {}
    /\ lastPongAt # 0

-----------------------------------------------------------------------------
(* The reporting timer *)

\* C30: while the report interval is armed a tick can run in every session
\* state; it starts an enumeration and sends nothing itself; the step in
\* which that enumeration ends replaces the cache with its result, and puts
\* the snapshot on the wire if the session is open then and nothing
\* otherwise.
C30_ReportTick ==
    /\ []((running /\ ~shuttingDown) => timerReport)
    /\ []((running /\ timerReport /\ evSeq < MaxEvents) => ENABLED ReportTick)
    /\ [][(evSeq' = evSeq + 1 /\ events'[evSeq'].kind = "report") =>
              /\ Op("report", evSeq', "none") \in inflight'
              /\ wire' = wire]_vars
    /\ [][\A op \in inflight \ inflight' :
              op.kind = "report" =>
                  /\ lastSnapshot'.run = op.ev
                  /\ wire' = IF SessionOpen(socks, ws)
                             THEN Append(wire, SnapshotMsg(op.ev, "none",
                                                           lastSnapshot'))
                             ELSE wire]_vars

\* after the connect-time report went out and the session closed, a tick's
\* enumeration replaced the cache and nothing more was sent
C30_Witness ==
    /\ ws # 0 /\ socks[ws] = "CLOSED"
    /\ \E i \in DOMAIN wire :
          wire[i].type = "snapshot" /\ events[wire[i].ev].kind = "open"
    /\ lastSnapshot.run # 0 /\ events[lastSnapshot.run].kind = "report"
    /\ \A i \in DOMAIN wire : wire[i].ev # lastSnapshot.run

-----------------------------------------------------------------------------
(* Self-restart *)

\* the timers whose restartSelf() call runs in this step
RestartsAttempted == restartTimers \ restartTimers'

RestartJustified(t, handed) ==
    /\ events[t.ev].kind = "runInstall"
    /\ events[t.ev].restart
    /\ Succeeded(t.ev)
    /\ InstallResultMsg(t.ev, events[t.ev].id, TRUE) \in handed

\* the process ends only after a signal or in a restartSelf() call
ExitOnlyBySignalOrRestart ==
    (running /\ ~running') => (shuttingDown \/ RestartsAttempted # {})

\* C31 as stated: restartSelf() runs only for a runInstall request that
\* asked for a restart and whose script exited with code 0, and only after
\* the installResult with ok true of that request went out on the session;
\* nothing else ends the process but a signal.
C31_RestartAfterResultSent ==
    [][/\ \A t \in RestartsAttempted : RestartJustified(t, Range(wire))
       /\ ExitOnlyBySignalOrRestart]_vars

\* C31: restartSelf() runs only for a runInstall request that asked for a
\* restart and whose script exited with code 0, and only after the
\* installResult with ok true of that request was given to wsSend, which
\* sent it if the session was open and discarded it otherwise; nothing else
\* ends the process but a signal.
C31_RestartAfterResult ==
    [][/\ \A t \in RestartsAttempted :
             RestartJustified(t, Range(wire) \cup discarded)
       /\ ExitOnlyBySignalOrRestart]_vars

\* the process restarted itself after a successful install whose result
\* was sent, with no signal
C31_Witness ==
    /\ ~running /\ ~shuttingDown
    /\ \E ev \in Installs :
          /\ Succeeded(ev) /\ events[ev].restart
          /\ InstallResultMsg(ev, events[ev].id, TRUE) \in Range(wire)

-----------------------------------------------------------------------------
(* Frame effects *)

\* the step handles a frame of the given type
Handles(type) ==
    /\ Len(events') = Len(events) + 1
    /\ events'[Len(events')].kind = type

\* C32: the step that handles a ping on an open session appends one pong to
\* the frames sent and changes nothing else: no enumeration or command is
\* started, and the cache, lastPongAt, the attempt counter, the sockets and
\* the timers stay as they were.
C32_PingOnlyPongs ==
    [][(Handles("ping") /\ SessionOpen(socks, ws))
       => /\ wire' = Append(wire, Msg("pong", Len(events'), "none"))
          /\ discarded' = discarded
          /\ inflight' = inflight /\ launched' = launched
          /\ lastSnapshot' = lastSnapshot /\ completed' = completed
          /\ lastPongAt' = lastPongAt
          /\ reconnectAttempts' = reconnectAttempts
          /\ socks' = socks /\ ws' = ws
          /\ wsTimerHeartbeat' = wsTimerHeartbeat /\ hbTimers' = hbTimers
          /\ wsTimerReconnect' = wsTimerReconnect /\ rcTimers' = rcTimers
          /\ restartTimers' = restartTimers /\ timerReport' = timerReport
          /\ running' = running /\ shuttingDown' = shuttingDown]_vars

\* a ping was answered on the open session while the connect-time
\* enumeration was running
C32_Witness ==
    /\ events # << >>
    /\ events[Len(events)].kind = "ping" /\ events[Len(events)].open
    /\ wire # << >> /\ wire[Len(wire)] = Msg("pong", Len(events), "none")
    /\ \E op \in inflight : op.kind = "connect"

\* the session object, the attempt counter, the reconnect and heartbeat
\* timers and lastPongAt
SessionVars ==
    << socks, ws, reconnectAttempts, wsTimerReconnect, rcTimers,
       wsTimerHeartbeat, hbTimers, lastPongAt >>

\* C33: a step that handles an inbound frame, runs a report tick, or ends an
\* enumeration or an install leaves the session object, the attempt
\* counter, both timers and lastPongAt unchanged.
C33_SessionStateOwned ==
    [][(\/ \E type \in MessageTypes \cup {"report"} : Handles(type)
        \/ inflight \ inflight' # {})
       => UNCHANGED SessionVars]_vars

\* after a close armed a reconnect timer, a tick's enumeration ended with
\* the counter and the timer still in place
C33_Witness ==
    /\ reconnectAttempts = 1 /\ rcTimers # {}
    /\ ws # 0 /\ socks[ws] = "CLOSED"
    /\ lastSnapshot.run # 0 /\ events[lastSnapshot.run].kind = "report"
    /\ inflight = {}

-----------------------------------------------------------------------------
(* Health of a systemd unit *)

\* C34: in every run, every record of the Linux enumerator has healthy true
\* exactly when the unit's ActiveState is "active", whatever its SubState.
C34_HealthyIffActive ==
    \A i \in DOMAIN completed :
        \A k \in DOMAIN completed[i].parts[1] :
            LET r == completed[i].parts[1][k]
            IN  r.platform = "linux" => (r.healthy <=> r.active = "active")

\* a run of the reporting timer reported a unit that is active but exited
\* as healthy and an inactive one as not healthy
C34_Witness ==
    \E i \in DOMAIN completed :
        /\ completed[i].ev # 0
        /\ \E k, m \in DOMAIN completed[i].parts[1] :
              LET r == completed[i].parts[1][k]
                  q == completed[i].parts[1][m]
              IN  /\ r.active = "active" /\ r.sub = "exited" /\ r.healthy
                  /\ q.active = "inactive" /\ ~q.healthy

-----------------------------------------------------------------------------
(* Heartbeat *)

\* the step is a heartbeat tick that terminates the session
TerminatedByTick ==
    /\ SessionOpen(socks, ws) /\ socks'[ws] = "CLOSING"
    /\ hbTimers' # hbTimers
    /\ shuttingDown' = shuttingDown

\* C35: a heartbeat tick terminates the session only if the last pong (or
\* the open) is older than twice the configured heartbeat interval, and
\* every step that moves lastPongAt sets it to the current time.
C35_LiveSessionKept ==
    /\ [][TerminatedByTick => now - lastPongAt > 2 * HeartbeatPeriod]_vars
    /\ [][lastPongAt' # lastPongAt => lastPongAt' = now]_vars

\* a tick ran when the last pong, received after the open, was exactly two
\* intervals old, and the session is still open
C35_Witness ==
    /\ SessionOpen(socks, ws)
    /\ now - lastPongAt = 2 * HeartbeatPeriod
    /\ lastPongAt > StartTime
    /\ hbTimers # {}
    /\ \A t \in hbTimers : t.due = now + HeartbeatPeriod

-----------------------------------------------------------------------------
(* Replies and sessions *)

\* frame j was caused by an event of a session earlier than the one it was
\* sent on: it follows the hello of an open that came after its event
SentOnLaterSession(j) ==
    \E i \in 1 .. (j - 1) :
        wire[i].type = "hello" /\ wire[i].ev > wire[j].ev

\* C36: no snapshot, ok or installResult frame caused by a request or by the
\* open of one session is sent on a session opened later.
C36_RepliesOnOwnSession ==
    \A j \in DOMAIN wire :
        ( /\ wire[j].type \in {"snapshot", "ok", "installResult"}
          /\ events[wire[j].ev].kind # "report" )
        => ~SentOnLaterSession(j)

-----------------------------------------------------------------------------
(* The heartbeat timer *)

\* C37: at most one heartbeat timer exists, it is the one wsTimerHeartbeat
\* refers to, and it exists only from the open of the current session to
\* its close event: never with the session closed, absent, or connecting.
C37_HeartbeatOnlyWhenOpen ==
    /\ Cardinality(hbTimers) <= 1
    /\ \A t \in hbTimers : t.id = wsTimerHeartbeat
    /\ wsTimerHeartbeat # 0 => hbTimers # {}
    /\ hbTimers # {} => (ws # 0 /\ socks[ws] \in {"OPEN", "CLOSING"})

\* the heartbeat of the second session runs, the first session closed
C37_Witness ==
    /\ Cardinality(hbTimers) = 1
    /\ ws = 2 /\ socks[2] = "OPEN" /\ socks[1] = "CLOSED"
    /\ now > StartTime

====
